---------------------------- MODULE Spec2Model ----------------------------
(***************************************************************************)
(* Environment-variable selection for the task hash of turborepo:          *)
(*   crates/turborepo-env/src/lib.rs       (crate "turborepo-env")         *)
(*   crates/turborepo-lib/src/env.rs       (crate "turborepo-lib")         *)
(*   crates/turborepo-lib/src/run/global_hash.rs                           *)
(*                                                                         *)
(* A Rust String is modelled as a sequence of characters, a character as a *)
(* one-character TLA+ string; "U+00E9" stands for the character e-acute,   *)
(* which UTF-8 encodes in two bytes.  A map is a function from its keys to *)
(* their values.                                                           *)
(***************************************************************************)
EXTENDS Naturals, Sequences, FiniteSets, TLC

VARIABLES
    pc,                \* position of the operation under way
    crate,             \* which of the two near-duplicate modules runs
    pattern,           \* argument of wildcard_to_regex_pattern
    regex_string,      \* Vec<String> built by wildcard_to_regex_pattern
    env_var,           \* name handed to Regex::is_match
    matched,           \* result of Regex::is_match
    self,              \* receiver map (the environment snapshot)
    wildcard_patterns, \* the pattern list argument
    output,            \* result of the call under way
    depth,             \* nested activations of from_wildcards
    another,           \* argument map of union / difference
    last,              \* the last map operation and the maps it started from
    pairs              \* EnvironmentVariablePairs returned by map_to_pair

vars == <<pc, crate, pattern, regex_string, env_var, matched, self,
          wildcard_patterns, output, depth, another, last, pairs>>

\* ------------------------------------------------------------- bounds

MaxPatternLen == 4
MaxNameLen == 3
MaxPatterns == 2
MaxDepth == 3

\* ------------------------------------------------------------ strings

Str(S, n) == UNION {[1..k -> S] : k \in 0..n}

Crates == {"turborepo-env", "turborepo-lib"}

\* char::len_utf8
Utf8Len(c) == IF c = "U+00E9" THEN 2 ELSE 1

RECURSIVE ByteLen(_)
\* str::len: the length in bytes
ByteLen(s) == IF s = <<>> THEN 0 ELSE Utf8Len(Head(s)) + ByteLen(Tail(s))

RECURSIVE BoundaryFrom(_, _, _)
\* whether byte offset off, counted from the start of character k + 1 of s,
\* is where a character of s starts or s ends
BoundaryFrom(s, k, off) ==
    IF off = 0 THEN TRUE
    ELSE IF k = Len(s) \/ Utf8Len(s[k + 1]) > off THEN FALSE
    ELSE BoundaryFrom(s, k + 1, off - Utf8Len(s[k + 1]))

\* str::is_char_boundary
IsCharBoundary(s, off) == BoundaryFrom(s, 0, off)

RECURSIVE CharsFrom(_, _, _)
CharsFrom(s, k, off) ==
    IF off = 0 THEN k ELSE CharsFrom(s, k + 1, off - Utf8Len(s[k + 1]))

\* the number of characters before the character boundary off
CharsBefore(s, off) == CharsFrom(s, 0, off)

Ok(v) == [tag |-> "Ok", val |-> v]
Panic == [tag |-> "Panic", val |-> <<>>]
Err == [tag |-> "Err", val |-> <<>>]

\* what follows a call that may panic or fail: F of its value, or the panic
\* or the error itself (the unwinding of a panic, and the `?` operator)
Bind(r, F(_)) == IF r.tag = "Ok" THEN F(r.val) ELSE r

\* &s[a..b]: a slice by BYTE offsets; it panics when a > b, when b is past
\* the end, or when a or b falls inside a character
Slice(s, a, b) ==
    IF a <= b /\ IsCharBoundary(s, a) /\ IsCharBoundary(s, b)
    THEN Ok(SubSeq(s, CharsBefore(s, a) + 1, CharsBefore(s, b)))
    ELSE Panic

\* the characters regex::escape puts a backslash before
MetaChars == {"\\", ".", "+", "*", "?", "(", ")", "|", "[", "]", "{", "}",
              "^", "$", "#", "&", "-", "~"}

RECURSIVE regex_escape(_)
regex_escape(s) ==
    IF s = <<>> THEN <<>>
    ELSE (IF Head(s) \in MetaChars THEN <<"\\", Head(s)>> ELSE <<Head(s)>>)
         \o regex_escape(Tail(s))

RECURSIVE join(_, _)
\* [String]::join
join(segments, sep) ==
    IF segments = <<>> THEN <<>>
    ELSE IF Len(segments) = 1 THEN segments[1]
    ELSE segments[1] \o sep \o join(Tail(segments), sep)

\* ------------------------------------------------ the pattern compiler

WILDCARD == "*"
WILDCARD_ESCAPE == "\\"
REGEX_WILDCARD_SEGMENT == <<".", "*">>

None == "None"

\* the segment pushed for a literal "\*" in turborepo-env: the run and the
\* asterisk, escaped together
LiteralSegmentEnv(run) == regex_escape(run \o <<"*">>)

\* the segment pushed for a literal "\*" in turborepo-lib: the escaped run,
\* then a bare asterisk
LiteralSegmentLib(run) == regex_escape(run) \o <<"*">>

LiteralSegment(c, run) ==
    IF c = "turborepo-env" THEN LiteralSegmentEnv(run)
    ELSE LiteralSegmentLib(run)

\* the dynamic segment is pushed unless the last pushed segment is one; the
\* last pushed segment is the static segment pushed just before (the branch
\* for an empty vector is turborepo-lib's, and is never taken)
PushWildcard(segments) ==
    IF segments # <<>>
    THEN IF segments[Len(segments)] # REGEX_WILDCARD_SEGMENT
         THEN Append(segments, REGEX_WILDCARD_SEGMENT)
         ELSE segments
    ELSE Append(segments, REGEX_WILDCARD_SEGMENT)

\* one round of `for (i, char) in pattern.chars().enumerate()`; i counts
\* characters from 0, st is the loop's state
ScanStep(c, pat, i, st) ==
    LET char == pat[i + 1]
        literal == st.previous_char = WILDCARD_ESCAPE
    IN IF char = WILDCARD
       THEN Bind(Slice(pat, st.previous_index, IF literal THEN i - 1 ELSE i),
                 LAMBDA run :
                   Ok([regex_string |->
                         IF literal
                         THEN Append(st.regex_string, LiteralSegment(c, run))
                         ELSE PushWildcard(Append(st.regex_string,
                                                  regex_escape(run))),
                       previous_index |-> i + 1,
                       previous_char |-> char]))
       ELSE Ok([st EXCEPT !.previous_char = char])

RECURSIVE Scan(_, _, _, _)
Scan(c, pat, i, st) ==
    IF i = Len(pat) THEN Ok(st)
    ELSE Bind(ScanStep(c, pat, i, st), LAMBDA next : Scan(c, pat, i + 1, next))

\* the Vec<String> regex_string at the end of wildcard_to_regex_pattern, or
\* Panic when a slice panics
wildcard_to_regex_segments(c, pat) ==
    Bind(Scan(c, pat, 0, [regex_string |-> <<>>,
                          previous_index |-> 0,
                          previous_char |-> None]),
         LAMBDA st :
           Bind(Slice(pat, st.previous_index, ByteLen(pat)),
                LAMBDA run : Ok(Append(st.regex_string, regex_escape(run)))))

wildcard_to_regex_pattern(c, pat) ==
    Bind(wildcard_to_regex_segments(c, pat),
         LAMBDA segments : Ok(join(segments, <<>>)))

\* ------------------------------------------------------ the regex crate
\* The part of the regex syntax that the strings built here can hold: a
\* literal character, an escaped character, ".", a postfix "*", and the
\* alternation bar inside the one anchored group "^(...)$".

RECURSIVE Tokens(_)
Tokens(s) ==
    IF s = <<>> THEN <<>>
    ELSE IF Head(s) = "\\"
         THEN IF Len(s) >= 2
              THEN <<[t |-> "lit", c |-> s[2]]>> \o Tokens(SubSeq(s, 3, Len(s)))
              ELSE <<[t |-> "bad", c |-> "\\"]>>
         ELSE IF Head(s) \in {".", "*", "|", "(", ")", "^", "$"}
              THEN <<[t |-> Head(s), c |-> Head(s)]>> \o Tokens(Tail(s))
              ELSE <<[t |-> "lit", c |-> Head(s)]>> \o Tokens(Tail(s))

RECURSIVE SplitBars(_, _)
\* the alternatives of a token sequence; cur is the alternative under way
SplitBars(toks, cur) ==
    IF toks = <<>> THEN <<cur>>
    ELSE IF Head(toks).t = "|"
         THEN <<cur>> \o SplitBars(Tail(toks), <<>>)
         ELSE SplitBars(Tail(toks), Append(cur, Head(toks)))

\* "repetition operator missing expression": a "*" that opens an alternative
StarWithoutAtom(alt) == alt # <<>> /\ alt[1].t = "*"

RECURSIVE ItemsFrom(_, _)
\* the atoms of an alternative from token k on, each with its repetition
\* flag; "a**" is "a*"
ItemsFrom(alt, k) ==
    IF k > Len(alt) THEN <<>>
    ELSE IF alt[k].t = "*" THEN ItemsFrom(alt, k + 1)
    ELSE <<[t |-> alt[k].t, c |-> alt[k].c,
            star |-> k < Len(alt) /\ alt[k + 1].t = "*"]>>
         \o ItemsFrom(alt, k + 1)

Items(alt) == ItemsFrom(alt, 1)

Alternatives(alts) ==
    IF \E k \in 1..Len(alts) : StarWithoutAtom(alts[k])
    THEN Err
    ELSE Ok([k \in 1..Len(alts) |-> Items(alts[k])])

\* Regex::new of an anchored group: Ok(sequence of alternatives) or Err
RegexNew(s) ==
    LET toks == Tokens(s)
        n == Len(toks)
    IN IF /\ n >= 4
          /\ toks[1].t = "^" /\ toks[2].t = "("
          /\ toks[n - 1].t = ")" /\ toks[n].t = "$"
          /\ \A k \in 3..(n - 2) : toks[k].t \in {"lit", ".", "*", "|"}
       THEN Alternatives(SplitBars(SubSeq(toks, 3, n - 2), <<>>))
       ELSE Err

\* "." matches any character but the line feed
Accepts(item, ch) == IF item.t = "." THEN ch # "\n" ELSE ch = item.c

RECURSIVE MatchItems(_, _, _, _)
MatchItems(items, i, s, j) ==
    IF i > Len(items) THEN j > Len(s)
    ELSE IF items[i].star
         THEN \/ MatchItems(items, i + 1, s, j)
              \/ /\ j <= Len(s)
                 /\ Accepts(items[i], s[j])
                 /\ MatchItems(items, i, s, j + 1)
         ELSE /\ j <= Len(s)
              /\ Accepts(items[i], s[j])
              /\ MatchItems(items, i + 1, s, j + 1)

\* Regex::is_match of a compiled anchored group
is_match(regex, s) ==
    \E k \in 1..Len(regex) : MatchItems(regex[k], 1, s, 1)

\* format!("^({})$", patterns.join("|"))
AnchoredGroup(patterns) ==
    <<"^", "(">> \o join(patterns, <<"|">>) \o <<")", "$">>

\* ------------------------------------- the compiler, applied and tested

PatternAlphabet == {"A", "B", "*", "\\", ".", "U+00E9"}
NameAlphabet == {"A", "B", "*", "U+00E9"}
Patterns == Str(PatternAlphabet, MaxPatternLen)
TestNames == Str(NameAlphabet, MaxNameLen)

Idle == "idle"

InitCompile ==
    /\ pc = "start"
    /\ crate \in Crates
    /\ pattern \in Patterns
    /\ regex_string = Idle
    /\ env_var = Idle
    /\ matched = Idle
    /\ self = Idle /\ wildcard_patterns = Idle /\ output = Idle
    /\ depth = 0 /\ another = Idle /\ last = Idle /\ pairs = Idle

\* wildcard_to_regex_pattern(pattern), up to the join of the segments
Compile ==
    /\ pc = "start"
    /\ regex_string' = wildcard_to_regex_segments(crate, pattern)
    /\ pc' = IF regex_string'.tag = "Panic" THEN "panicked" ELSE "compiled"
    /\ UNCHANGED <<crate, pattern, env_var, matched, self, wildcard_patterns,
                   output, depth, another, last, pairs>>

\* Regex::new(format!("^({})$", fragment)) and is_match(name)
TestMatch ==
    /\ pc = "compiled"
    /\ \E name \in TestNames :
          /\ env_var' = name
          /\ matched' = Bind(RegexNew(AnchoredGroup(
                                  <<join(regex_string.val, <<>>)>>)),
                             LAMBDA regex : Ok(is_match(regex, name)))
          /\ pc' = IF matched'.tag = "Err" THEN "regex_error" ELSE "matched"
    /\ UNCHANGED <<crate, pattern, regex_string, self, wildcard_patterns,
                   output, depth, another, last, pairs>>

NextCompile == Compile \/ TestMatch

SpecCompile == InitCompile /\ [][NextCompile]_vars


\* ------------------------------------------- claims about the compiler

\* every "*" of p directly follows the escape character
AllStarsEscaped(p) ==
    \A i \in 1..Len(p) : p[i] = "*" => (i > 1 /\ p[i - 1] = "\\")

RECURSIVE Unescape(_)
\* p without the backslash before each "*"
Unescape(p) ==
    IF p = <<>> THEN <<>>
    ELSE IF Len(p) >= 2 /\ p[1] = "\\" /\ p[2] = "*"
         THEN <<"*">> \o Unescape(SubSeq(p, 3, Len(p)))
         ELSE <<Head(p)>> \o Unescape(Tail(p))

SingleByte(p) == \A i \in 1..Len(p) : Utf8Len(p[i]) = 1

\* C4: when every "*" of the pattern is escaped, the anchored fragment is a
\* regex that matches a name exactly when the name is the pattern with the
\* backslash before each "*" removed.
C4_EscapedStarIsLiteral ==
    (pc \in {"matched", "regex_error"} /\ AllStarsEscaped(pattern))
        => /\ pc = "matched"
           /\ matched.val <=> (env_var = Unescape(pattern))

\* C4 in turborepo-env alone, for patterns of one-byte characters: there the
\* escaped asterisk is a literal.
C4_HoldsInEnvCrateOnSingleBytePatterns ==
    (/\ pc \in {"panicked", "matched", "regex_error"}
     /\ crate = "turborepo-env"
     /\ SingleByte(pattern) /\ AllStarsEscaped(pattern))
        => /\ pc = "matched"
           /\ matched.val <=> (env_var = Unescape(pattern))

\* two dynamic segments of segs with nothing but empty segments between them
AdjacentDynamic(segs) ==
    \E i, j \in 1..Len(segs) :
        /\ i < j
        /\ segs[i] = REGEX_WILDCARD_SEGMENT
        /\ segs[j] = REGEX_WILDCARD_SEGMENT
        /\ \A k \in (i + 1)..(j - 1) : segs[k] = <<>>

RECURSIVE CollapseStars(_, _)
\* p with each run of unescaped asterisks cut to one; prev is the character
\* before p, "literal" when that character is an escaped asterisk
CollapseStars(p, prev) ==
    IF p = <<>> THEN <<>>
    ELSE IF Head(p) = "*" /\ prev = "*"
         THEN CollapseStars(Tail(p), "*")
         ELSE <<Head(p)>>
              \o CollapseStars(Tail(p),
                               IF Head(p) = "*" /\ prev = "\\"
                               THEN "literal" ELSE Head(p))

\* C5: the emitted segments never hold two dynamic ".*" segments with no
\* literal text between them, and the fragment is the fragment of the
\* pattern with its consecutive unescaped asterisks collapsed ("A**B"
\* compiles as "A*B").
C5_AdjacentWildcardsCollapsed ==
    pc = "compiled"
        => /\ ~AdjacentDynamic(regex_string.val)
           /\ wildcard_to_regex_pattern(crate, CollapseStars(pattern, None))
                 = Ok(join(regex_string.val, <<>>))

\* the pattern with the two-byte character replaced by a one-byte one that no
\* pattern holds, and back
Narrow(s) == [i \in 1..Len(s) |-> IF s[i] = "U+00E9" THEN "E" ELSE s[i]]
Widen(s) == [i \in 1..Len(s) |-> IF s[i] = "E" THEN "U+00E9" ELSE s[i]]

\* the segments a scan cutting at character positions emits
SegmentsByCharacter(c, p) ==
    LET narrow == wildcard_to_regex_segments(c, Narrow(p)).val
    IN [k \in 1..Len(narrow) |-> Widen(narrow[k])]

\* C6: wildcard_to_regex_pattern never panics, and each literal run it cuts
\* is the characters between the previous cut and the current "*" (or the
\* escape before it), also next to a character of more than one byte.
C6_TotalAndCutsAtCharacters ==
    /\ pc # "panicked"
    /\ pc = "compiled"
          => regex_string.val = SegmentsByCharacter(crate, pattern)

\* C6 for patterns of one-byte characters: no panic.
C6_HoldsOnSingleBytePatterns == SingleByte(pattern) => pc # "panicked"

\* ------------------------------------------ the EnvironmentVariableMap

EmptyMap == <<>>

Keys(m) == DOMAIN m

\* HashMap::insert / BTreeMap::insert: overwrite
insert(m, key, value) ==
    [k \in Keys(m) \cup {key} |-> IF k = key THEN value ELSE m[k]]

\* HashMap::remove / BTreeMap::remove
remove(m, key) == [k \in Keys(m) \ {key} |-> m[k]]

\* a union that keeps the receiver's value of a key both maps hold
union_keeping_own(m, other) ==
    [k \in Keys(m) \cup Keys(other) |->
        IF k \in Keys(m) THEN m[k] ELSE other[k]]

\* `for (key, value) in another { self.insert(key, value) }`
union(m, other) ==
    [k \in Keys(m) \cup Keys(other) |->
        IF k \in Keys(other) THEN other[k] ELSE m[k]]

\* `for key in another.keys() { self.remove(key) }`
difference(m, other) == [k \in Keys(m) \ Keys(other) |-> m[k]]

\* WildcardMaps::resolve
resolve(maps) ==
    [k \in Keys(maps.inclusions) \ Keys(maps.exclusions) |-> maps.inclusions[k]]

\* ------------------------------------------------ the wildcard resolver

starts_with(s, ch) == s # <<>> /\ s[1] = ch

\* the branch one pattern takes in the first loop of
\* wildcard_map_from_wildcards, and the body it hands to the compiler
PatternKind(p) ==
    IF starts_with(p, "!") THEN "exclude"
    ELSE IF starts_with(p, "\\") /\ Len(p) >= 2 /\ p[2] = "!"
         THEN "escaped_include"
         ELSE "include"

PatternBody(p) ==
    IF PatternKind(p) = "include" THEN Ok(p) ELSE Slice(p, 1, ByteLen(p))

\* the compiled fragment of one pattern, or Panic
CompileOne(c, p) ==
    Bind(PatternBody(p), LAMBDA body : wildcard_to_regex_pattern(c, body))

RECURSIVE CompileAll(_, _, _)
\* include_patterns or exclude_patterns after the first loop (kinds says
\* which), or Panic; every pattern is compiled, whatever its kind
CompileAll(c, pats, kinds) ==
    IF pats = <<>> THEN Ok(<<>>)
    ELSE Bind(CompileOne(c, Head(pats)),
              LAMBDA one :
                Bind(CompileAll(c, Tail(pats), kinds),
                     LAMBDA rest :
                       IF PatternKind(Head(pats)) \in kinds
                       THEN Ok(<<one>> \o rest)
                       ELSE Ok(rest)))

\* the test without its guard
SelectedWithoutGuard(patterns, regex, name) == is_match(regex, name)

\* `!patterns.is_empty() && regex.is_match(env_var)`
Selected(patterns, regex, name) == patterns # <<>> /\ is_match(regex, name)

\* the second loop of wildcard_map_from_wildcards
Partition(m, include_patterns, include_regex, exclude_patterns, exclude_regex) ==
    [inclusions |->
       [k \in {n \in Keys(m) : Selected(include_patterns, include_regex, n)}
          |-> m[k]],
     exclusions |->
       [k \in {n \in Keys(m) : Selected(exclude_patterns, exclude_regex, n)}
          |-> m[k]]]

wildcard_map_from_wildcards(c, m, pats) ==
    Bind(CompileAll(c, pats, {"include", "escaped_include"}),
      LAMBDA include_patterns :
        Bind(CompileAll(c, pats, {"exclude"}),
          LAMBDA exclude_patterns :
            Bind(RegexNew(AnchoredGroup(include_patterns)),
              LAMBDA include_regex :
                Bind(RegexNew(AnchoredGroup(exclude_patterns)),
                  LAMBDA exclude_regex :
                    Ok(Partition(m, include_patterns, include_regex,
                                 exclude_patterns, exclude_regex))))))

\* from_wildcards of turborepo-env
from_wildcards(c, m, pats) ==
    IF pats = <<>> THEN Ok(EmptyMap)
    ELSE Bind(wildcard_map_from_wildcards(c, m, pats),
              LAMBDA resolved_set : Ok(resolve(resolved_set)))

\* from_wildcards_unresolved of turborepo-env
from_wildcards_unresolved(c, m, pats) ==
    IF pats = <<>> THEN Ok([inclusions |-> EmptyMap, exclusions |-> EmptyMap])
    ELSE wildcard_map_from_wildcards(c, m, pats)

\* ---------------------------------------------- the hash-input builder

VERCEL_ANALYTICS_ID == <<"V", "E", "R", "C", "E", "L", "_", "A", "N", "A", "L", "Y", "T", "I", "C", "S", "_", "I", "D">>

DEFAULT_ENV_VARS == <<VERCEL_ANALYTICS_ID>>

all_env_var_map(user_env_var_set, default_env_var_map) ==
    difference(union(union(EmptyMap, user_env_var_set.inclusions),
                     default_env_var_map),
               user_env_var_set.exclusions)

explicit_env_var_map(user_env_var_set) ==
    difference(union(EmptyMap, user_env_var_set.inclusions),
               user_env_var_set.exclusions)

\* the default matches with the user's exclusions left in
matching_without_difference(user_env_var_set, default_env_var_map) ==
    union(EmptyMap, default_env_var_map)

matching_env_var_map(user_env_var_set, default_env_var_map) ==
    difference(union(EmptyMap, default_env_var_map),
               user_env_var_set.exclusions)

\* get_global_hash_inputs: the DetailedMap it puts in resolved_env_vars
get_global_hash_inputs(c, env_at_execution_start, global_env) ==
    Bind(from_wildcards(c, env_at_execution_start, DEFAULT_ENV_VARS),
      LAMBDA default_env_var_map :
        Bind(from_wildcards_unresolved(c, env_at_execution_start, global_env),
          LAMBDA user_env_var_set :
            Ok([all |-> all_env_var_map(user_env_var_set, default_env_var_map),
                by_source |->
                  [explicit |-> explicit_env_var_map(user_env_var_set),
                   matching |-> matching_env_var_map(user_env_var_set,
                                                     default_env_var_map)]])))

\* ------------------------------ the resolver and the builder, applied

FOO == <<"F", "O", "O">>
EAB == <<"U+00E9", "A", "B">>

\* names of the variables a snapshot may hold; the third is the empty name
VarNames == {FOO, VERCEL_ANALYTICS_ID, <<>>, EAB}
VarValues == {<<"1">>, <<"2">>}

Snapshots == UNION {[S -> VarValues] : S \in SUBSET VarNames}

PatternPool ==
    { FOO, <<"*">>, <<"\\", "!", "F", "O", "O">>, <<"!", "V", "*">>,
      <<"!", "U+00E9", "A", "*">>, <<"!", "U+00E9", "*">> }

PatternLists == Str(PatternPool, MaxPatterns)

Init ==
    /\ pc = "start"
    /\ crate \in Crates
    /\ self \in Snapshots
    /\ wildcard_patterns \in PatternLists
    /\ output = Idle
    /\ depth = 0
    /\ pattern = Idle /\ regex_string = Idle /\ env_var = Idle
    /\ matched = Idle /\ another = Idle /\ last = Idle /\ pairs = Idle

Rest == <<pattern, regex_string, env_var, matched, another, last, pairs>>

\* the position a call ends in
Ended(op, r) == IF r.tag = "Panic" THEN "panicked" ELSE op

\* self.from_wildcards(wildcard_patterns) is called
FromWildcards ==
    /\ pc = "start"
    /\ pc' = "from_wildcards"
    /\ depth' = 1
    /\ UNCHANGED <<crate, self, wildcard_patterns, output, Rest>>

\* the body of from_wildcards: the empty list returns at once; turborepo-env
\* partitions and resolves
FromWildcardsReturn ==
    /\ pc = "from_wildcards"
    /\ wildcard_patterns = <<>> \/ crate = "turborepo-env"
    /\ output' = from_wildcards(crate, self, wildcard_patterns)
    /\ pc' = Ended("from_wildcards_returned", output')
    /\ depth' = depth - 1
    /\ UNCHANGED <<crate, self, wildcard_patterns, Rest>>

\* turborepo-lib: a non-empty list makes from_wildcards call itself with the
\* arguments it got; the stack holds MaxDepth activations
FromWildcardsRecurse ==
    /\ pc = "from_wildcards"
    /\ wildcard_patterns # <<>> /\ crate = "turborepo-lib"
    /\ IF depth < MaxDepth
       THEN depth' = depth + 1 /\ pc' = pc
       ELSE depth' = depth /\ pc' = "stack_overflow"
    /\ UNCHANGED <<crate, self, wildcard_patterns, output, Rest>>

\* self.from_wildcards_unresolved(wildcard_patterns); in turborepo-lib a
\* non-empty list goes to from_wildcards
FromWildcardsUnresolved ==
    /\ pc = "start"
    /\ IF wildcard_patterns = <<>> \/ crate = "turborepo-env"
       THEN /\ output' = from_wildcards_unresolved(crate, self,
                                                   wildcard_patterns)
            /\ pc' = Ended("from_wildcards_unresolved_returned", output')
            /\ depth' = depth
       ELSE /\ pc' = "from_wildcards"
            /\ depth' = 1
            /\ output' = output
    /\ UNCHANGED <<crate, self, wildcard_patterns, Rest>>

\* get_global_hash_inputs(env_at_execution_start = self, global_env =
\* wildcard_patterns); in turborepo-lib its first call, from_wildcards of
\* the non-empty DEFAULT_ENV_VARS, does not return
GetGlobalHashInputs ==
    /\ pc = "start"
    /\ IF crate = "turborepo-env"
       THEN /\ output' = get_global_hash_inputs(crate, self, wildcard_patterns)
            /\ pc' = Ended("get_global_hash_inputs_returned", output')
            /\ depth' = depth
            /\ UNCHANGED wildcard_patterns
       ELSE /\ pc' = "from_wildcards"
            /\ depth' = 1
            /\ wildcard_patterns' = DEFAULT_ENV_VARS
            /\ output' = output
    /\ UNCHANGED <<crate, self, Rest>>

Next ==
    \/ FromWildcards
    \/ FromWildcardsReturn
    \/ FromWildcardsRecurse
    \/ FromWildcardsUnresolved
    \/ GetGlobalHashInputs

Spec == Init /\ [][Next]_vars


\* ----------------------------- claims about the resolver and the builder

RECURSIVE Glob(_, _)
\* the pattern dialect: "\*" is an asterisk, any other "*" is any sequence
\* of characters, every other character is itself
Glob(p, s) ==
    IF p = <<>> THEN s = <<>>
    ELSE IF Len(p) >= 2 /\ p[1] = "\\" /\ p[2] = "*"
         THEN s # <<>> /\ s[1] = "*" /\ Glob(SubSeq(p, 3, Len(p)), Tail(s))
         ELSE IF p[1] = "*"
              THEN Glob(Tail(p), s) \/ (s # <<>> /\ Glob(p, Tail(s)))
              ELSE s # <<>> /\ s[1] = p[1] /\ Glob(Tail(p), Tail(s))

IsExclusion(p) == p # <<>> /\ p[1] = "!"

\* the glob body of a pattern: what follows "!" or the backslash of "\!"
GlobBody(p) ==
    IF IsExclusion(p) \/ (Len(p) >= 2 /\ p[1] = "\\" /\ p[2] = "!")
    THEN Tail(p) ELSE p

MatchesInclusion(pats, k) ==
    \E i \in 1..Len(pats) : ~IsExclusion(pats[i]) /\ Glob(GlobBody(pats[i]), k)

MatchesExclusion(pats, k) ==
    \E i \in 1..Len(pats) : IsExclusion(pats[i]) /\ Glob(GlobBody(pats[i]), k)

ExclusionPrimacy(m, pats, out) ==
    \A k \in Keys(m) :
        /\ (MatchesInclusion(pats, k) /\ MatchesExclusion(pats, k))
              => k \notin Keys(out)
        /\ (MatchesInclusion(pats, k) /\ ~MatchesExclusion(pats, k))
              => (k \in Keys(out) /\ out[k] = m[k])

\* C1: a key that matches an inclusion and an exclusion pattern is absent
\* from what from_wildcards returns, and a key that matches an inclusion
\* pattern and no exclusion pattern is there with the snapshot's value.
C1_ExclusionPrimacy ==
    (pc = "from_wildcards_returned" /\ output.tag = "Ok")
        => ExclusionPrimacy(self, wildcard_patterns, output.val)

\* C1 for pattern lists of one-byte characters.
C1_HoldsOnSingleBytePatterns ==
    (/\ pc = "from_wildcards_returned" /\ output.tag = "Ok"
     /\ \A i \in 1..Len(wildcard_patterns) : SingleByte(wildcard_patterns[i]))
        => ExclusionPrimacy(self, wildcard_patterns, output.val)

SubMap(m, of) == \A k \in Keys(m) : k \in Keys(of) /\ of[k] = m[k]

\* the keys of user_env_var_set.exclusions
UserExclusions ==
    Keys(from_wildcards_unresolved(crate, self, wildcard_patterns).val.exclusions)

C3_FromWildcardsTerminates == depth <= 1 /\ pc # "stack_overflow"

NoExclusionPattern(pats) == \A i \in 1..Len(pats) : ~IsExclusion(pats[i])
NoInclusionPattern(pats) == \A i \in 1..Len(pats) : IsExclusion(pats[i])

\* C10: for a non-empty list without exclusion patterns the partition's
\* exclusions are empty; without inclusion patterns its inclusions are
\* empty and from_wildcards returns the empty map.
C10_PartitionGuards ==
    /\ (/\ pc = "from_wildcards_unresolved_returned" /\ output.tag = "Ok"
        /\ wildcard_patterns # <<>>)
          => /\ NoExclusionPattern(wildcard_patterns)
                  => output.val.exclusions = EmptyMap
             /\ NoInclusionPattern(wildcard_patterns)
                  => output.val.inclusions = EmptyMap
    /\ (/\ pc = "from_wildcards_returned" /\ output.tag = "Ok"
        /\ wildcard_patterns # <<>>
        /\ NoInclusionPattern(wildcard_patterns))
          => output.val = EmptyMap

\* C10's case: the snapshot holds a variable with the empty name, the list
\* is not empty and has no exclusion pattern, and the partition is built.
C10_Witness ==
    /\ pc = "from_wildcards_unresolved_returned" /\ output.tag = "Ok"
    /\ wildcard_patterns # <<>>
    /\ NoExclusionPattern(wildcard_patterns)
    /\ <<>> \in Keys(self)
    /\ <<>> \in Keys(output.val.inclusions)


\* ------------------------------------- serialisation of a map to pairs

\* the characters of the names, values and digests below, in code point
\* order (the order of their UTF-8 bytes)
CodePointOrder ==
    <<"0", "1", "2", "3", "4", "5", "6", "7", "8", "9", "=", "A",
      "a", "b", "c", "d", "e", "f">>

Rank(ch) == CHOOSE i \in 1..Len(CodePointOrder) : CodePointOrder[i] = ch

RECURSIVE StrLess(_, _)
\* String's `<`: lexicographic on the bytes
StrLess(x, y) ==
    IF y = <<>> THEN FALSE
    ELSE IF x = <<>> THEN TRUE
    ELSE IF Head(x) = Head(y) THEN StrLess(Tail(x), Tail(y))
    ELSE Rank(Head(x)) < Rank(Head(y))

RECURSIVE InsertSorted(_, _)
InsertSorted(sorted, x) ==
    IF sorted = <<>> THEN <<x>>
    ELSE IF StrLess(x, Head(sorted)) THEN <<x>> \o sorted
    ELSE <<Head(sorted)>> \o InsertSorted(Tail(sorted), x)

RECURSIVE sort(_)
\* Vec<String>::sort
sort(v) ==
    IF v = <<>> THEN <<>>
    ELSE InsertSorted(sort(SubSeq(v, 1, Len(v) - 1)), v[Len(v)])

RECURSIVE iter(_)
\* BTreeMap::iter: the entries in ascending order of their keys
iter(m) ==
    IF Keys(m) = {} THEN <<>>
    ELSE LET first == CHOOSE k \in Keys(m) :
                          \A other \in Keys(m) \ {k} : StrLess(k, other)
         IN <<<<first, m[first]>>>> \o iter(remove(m, first))

\* the pairs after iterating and transforming, left in iteration order
map_to_pair_unsorted(transformed) == transformed

\* map_to_pair, from the transformed entries on: `pairs.sort(); pairs`
map_to_pair(transformed) == sort(transformed)

\* Sha256::digest(v.as_bytes()) formatted with {:x}, for the values below
Sha256Hex(v) ==
    CASE v = <<"0">> ->
         <<"5", "f", "e", "c", "e", "b", "6", "6", "f", "f", "c", "8", "6", "f", "3", "8",
           "d", "9", "5", "2", "7", "8", "6", "c", "6", "d", "6", "9", "6", "c", "7", "9",
           "c", "2", "d", "b", "c", "2", "3", "9", "d", "d", "4", "e", "9", "1", "b", "4",
           "6", "7", "2", "9", "d", "7", "3", "a", "2", "7", "f", "b", "5", "7", "e", "9">>
      [] v = <<"a">> ->
         <<"c", "a", "9", "7", "8", "1", "1", "2", "c", "a", "1", "b", "b", "d", "c", "a",
           "f", "a", "c", "2", "3", "1", "b", "3", "9", "a", "2", "3", "d", "c", "4", "d",
           "a", "7", "8", "6", "e", "f", "f", "8", "1", "4", "7", "c", "4", "e", "7", "2",
           "b", "9", "8", "0", "7", "7", "8", "5", "a", "f", "e", "e", "4", "8", "b", "b">>

\* the transformer of to_secret_hashable with the digest left out
SecretPairVerbatim(k, v) == k \o <<"=">> \o v

\* the transformer of to_secret_hashable
SecretPair(k, v) ==
    IF v # <<>> THEN k \o <<"=">> \o Sha256Hex(v) ELSE k \o <<"=">>

\* the transformer of to_hashable: format!("{}={}", k, v)
HashablePair(k, v) == k \o <<"=">> \o v

to_secret_hashable(m) ==
    map_to_pair([i \in 1..Len(iter(m)) |->
                    SecretPair(iter(m)[i][1], iter(m)[i][2])])

to_hashable(m) ==
    map_to_pair([i \in 1..Len(iter(m)) |->
                    HashablePair(iter(m)[i][1], iter(m)[i][2])])

\* ------------------------------- the map operations, applied in sequence

MapNames == {<<"A">>, <<"A", "0">>, <<"a">>}
MapValues == {<<>>, <<"0">>, <<"a">>}

InitMap ==
    /\ pc = "building"
    /\ self = EmptyMap
    /\ another = EmptyMap
    /\ last = [op |-> "none"]
    /\ pairs = Idle
    /\ crate = "turborepo-lib"
    /\ pattern = Idle /\ regex_string = Idle /\ env_var = Idle
    /\ matched = Idle /\ wildcard_patterns = Idle /\ output = Idle
    /\ depth = 0

Others == <<crate, pattern, regex_string, env_var, matched,
            wildcard_patterns, output, depth>>

\* self.insert(key, value)
Insert ==
    /\ pc = "building"
    /\ \E key \in MapNames, value \in MapValues :
          self' = insert(self, key, value)
    /\ last' = [op |-> "none"]
    /\ UNCHANGED <<pc, another, pairs, Others>>

\* another.insert(key, value): the argument map is built
InsertAnother ==
    /\ pc = "building"
    /\ \E key \in MapNames, value \in MapValues :
          another' = insert(another, key, value)
    /\ last' = [op |-> "none"]
    /\ UNCHANGED <<pc, self, pairs, Others>>

\* self.union(&another)
Union ==
    /\ pc = "building"
    /\ self' = union(self, another)
    /\ last' = [op |-> "union", before |-> self, other |-> another]
    /\ UNCHANGED <<pc, another, pairs, Others>>

\* self.difference(&another); `last` tells whether it follows a union with
\* the same argument
Difference ==
    /\ pc = "building"
    /\ self' = difference(self, another)
    /\ last' = IF last.op = "union"
               THEN [last EXCEPT !.op = "union_difference"]
               ELSE [op |-> "difference", before |-> self, other |-> another]
    /\ UNCHANGED <<pc, another, pairs, Others>>

\* self.to_hashable() and another.to_hashable()
ToHashable ==
    /\ pc = "building"
    /\ pairs' = [self |-> to_hashable(self), another |-> to_hashable(another)]
    /\ pc' = "hashable"
    /\ UNCHANGED <<self, another, last, Others>>

\* self.to_secret_hashable()
ToSecretHashable ==
    /\ pc = "building"
    /\ pairs' = [self |-> to_secret_hashable(self)]
    /\ pc' = "secret_hashable"
    /\ UNCHANGED <<self, another, last, Others>>

NextMap ==
    \/ Insert
    \/ InsertAnother
    \/ Union
    \/ Difference
    \/ ToHashable
    \/ ToSecretHashable

SpecMap == InitMap /\ [][NextMap]_vars


\* -------------------------- claims about the map and its serialisation

\* C7: after self.union(another) every key of another has another's value
\* and every other key of self keeps its value; after a following
\* self.difference(another) self is its original entries whose keys another
\* does not hold, so it differs from the original when the two share a key;
\* another is unchanged by both.
C7_UnionDifferenceAlgebra ==
    /\ last.op = "union"
          => /\ Keys(self) = Keys(last.before) \cup Keys(another)
             /\ \A k \in Keys(another) : self[k] = another[k]
             /\ \A k \in Keys(last.before) \ Keys(another) :
                    self[k] = last.before[k]
             /\ another = last.other
    /\ last.op = "union_difference"
          => /\ Keys(self) = Keys(last.before) \ Keys(another)
             /\ \A k \in Keys(self) : self[k] = last.before[k]
             /\ (Keys(last.before) \cap Keys(another) # {})
                    => self # last.before
             /\ another = last.other

\* C7's case: a union then a difference of two maps that share a key with
\* different values.
C7_Witness ==
    /\ last.op = "union_difference"
    /\ \E k \in Keys(last.before) \cap Keys(another) :
           last.before[k] # another[k]
    /\ self # EmptyMap

Ascending(v) == \A i, j \in 1..Len(v) : i < j => StrLess(v[i], v[j])

\* v holds one f-formatted string per entry of m
OnePerEntry(v, m) ==
    /\ Len(v) = Cardinality(Keys(m))
    /\ \A k \in Keys(m) : \E i \in 1..Len(v) : v[i] = k \o <<"=">> \o m[k]

\* C8: to_hashable returns one "name=value" string per entry, the value
\* verbatim, in ascending order of the whole strings; maps with the same
\* entries, however built, give the same sequence.
C8_HashableDeterministic ==
    pc = "hashable"
        => /\ OnePerEntry(pairs.self, self)
           /\ OnePerEntry(pairs.another, another)
           /\ Ascending(pairs.self)
           /\ Ascending(pairs.another)
           /\ (self = another => pairs.self = pairs.another)

\* C8's case: two keys whose order differs from the order of their
\* formatted strings ("A" < "A0", "A0=" < "A="), in two maps with the same
\* entries, one built by inserts and the other by a union that overwrote a
\* value.
C8_Witness ==
    /\ pc = "hashable"
    /\ {<<"A">>, <<"A", "0">>} \subseteq Keys(self)
    /\ self = another
    /\ last.op = "union"
    /\ \E k \in Keys(last.before) : last.before[k] # self[k]

\* x occurs in y as a run of consecutive characters
Contains(y, x) ==
    \E i \in 0..(Len(y) - Len(x)) : SubSeq(y, i + 1, i + Len(x)) = x

HexDigits == {"0", "1", "2", "3", "4", "5", "6", "7", "8", "9",
              "a", "b", "c", "d", "e", "f"}

\* the string to_secret_hashable returned for key k
Rendered(k) ==
    CHOOSE r \in {pairs.self[i] : i \in 1..Len(pairs.self)} :
        Len(r) > Len(k) /\ SubSeq(r, 1, Len(k) + 1) = k \o <<"=">>

HasRendered(k) ==
    \E i \in 1..Len(pairs.self) :
        /\ Len(pairs.self[i]) > Len(k)
        /\ SubSeq(pairs.self[i], 1, Len(k) + 1) = k \o <<"=">>

Sha256HexLen == 64

\* what follows "name=" is a digest: Sha256HexLen hexadecimal digits
IsDigestOf(k, r) ==
    /\ Len(r) = Len(k) + 1 + Sha256HexLen
    /\ \A i \in (Len(k) + 2)..Len(r) : r[i] \in HexDigits

\* C9 as stated: an empty value renders as "name=", a non-empty one as
\* "name=" and a fixed-length hexadecimal digest, and the rendered string
\* never contains the value.
C9_NeverContainsValue ==
    pc = "secret_hashable"
        => \A k \in Keys(self) :
              /\ HasRendered(k)
              /\ self[k] = <<>> => Rendered(k) = k \o <<"=">>
              /\ self[k] # <<>>
                    => /\ IsDigestOf(k, Rendered(k))
                       /\ ~Contains(Rendered(k), self[k])

\* C9 amended: there is one string per entry; an empty value renders as
\* "name=", a non-empty one as "name=" and the SHA-256 digest of the value
\* in Sha256HexLen hexadecimal digits, whatever the value.
C9_ValueReplacedByDigest ==
    pc = "secret_hashable"
        => /\ Len(pairs.self) = Cardinality(Keys(self))
           /\ \A k \in Keys(self) :
                 /\ HasRendered(k)
                 /\ self[k] = <<>> => Rendered(k) = k \o <<"=">>
                 /\ self[k] # <<>>
                       => /\ IsDigestOf(k, Rendered(k))
                          /\ Rendered(k) = k \o <<"=">> \o Sha256Hex(self[k])

\* C9's case: a value of one hexadecimal character that is also the
\* variable's name, beside an entry with the empty value.
C9_Witness ==
    /\ pc = "secret_hashable"
    /\ <<"a">> \in Keys(self) /\ self[<<"a">>] = <<"a">>
    /\ <<"A">> \in Keys(self) /\ self[<<"A">>] = <<>>

=============================================================================
